---- MODULE Spec2Model ----
(***************************************************************************)
(* Model of the goldsift trading-analysis bot: the admission gate          *)
(* (ConcurrencyManagerImpl), the message handler that scopes an admission   *)
(* around resolve -> fetch -> stream -> deliver (handleTextMessage), and    *)
(* the two-step trading-pair resolution (analyzeMessage with                *)
(* validateTradingPairByAPI), the streaming segmenter                       *)
(* (analyzeStreamingTrading) and the markdown sanitizer (sanitizeMarkdown). *)
(***************************************************************************)
EXTENDS Integers, Sequences, FiniteSets, TLC

(* ------------------------------ bounds -------------------------------- *)
NumChats == 2
NumHandlers == 2
MaxConfig == 2
MaxCalls == 4
MaxLen == 4
MaxChunks == 4
MaxPairs == 4

Chats == 1..NumChats
Handlers == 1..NumHandlers
ConfigValues == 1..MaxConfig

VARIABLES
  globalCount,            \* ConcurrencyManagerImpl.globalCount
  groupAnalysis,          \* ConcurrencyManagerImpl.groupAnalysis: chat -> "unset" | "true" | "false"
  maxConcurrentAnalysis,  \* config.maxConcurrentAnalysis
  pc,                     \* position of each handleTextMessage invocation
  chatOf,                 \* msg.chat.id of each invocation
  admitted,               \* startAnalysis succeeded in this invocation
  finishes,               \* number of finishAnalysis calls made by this invocation
  outcome,                \* how the invocation's promise settled
  error,                  \* code of the error handed to handleAnalysisError
  notice,                 \* the last closing message sent to the user by this invocation
  pairTypeOf,             \* parseResult.tradingPairType of this invocation
  lastCall,               \* last direct call on the manager and whether it threw
  calls,                  \* number of direct calls made on the manager
  probeOk,                \* (symbol, market) pairs whose klines probe answers in time
  rpc,                    \* position of the analyzeMessage call
  message,                \* analyzeMessage's argument
  result,                 \* first-pass verdict (local "result")
  secondResult,           \* second-pass verdict (local "secondResult")
  returned,               \* the verdict analyzeMessage resolved with
  routcome,               \* "none" | "returned" | "threw"
  vArg,                   \* pair argument of the validation in progress
  vPair,                  \* cleanPair of the validation in progress
  vType,                  \* tradingPairType argument of the validation in progress
  validations,            \* completed validateTradingPairByAPI calls
  probes,                 \* klines probes issued, in order
  classifyCalls,          \* callAIAPI calls issued
  registryFetches,        \* getEnhancedTradingPairs calls issued
  grounding,              \* pair lists handed to analyzeMessageWithContext
  stpc,                   \* position of the analyzeStreamingTrading call
  chunksRead,             \* content chunks taken from the model stream
  fullContent,            \* local "fullContent"
  currentSegment,         \* local "currentSegment"
  segmentCount,           \* local "segmentCount"
  emitted,                \* the onUpdate calls made, in order
  upc,                    \* position of the onUpdate callback in progress
  statusMessage,          \* the callback's "statusMessage" is not null
  delivered,              \* segmentCount of the segments sendSafeMessage has sent, in order
  failures,               \* calls of the callback that threw
  logged,                 \* logger.error calls made by the callback
  spc,                    \* position of the sanitizeMarkdown exercise
  text,                   \* a string handed to sanitizeMarkdown
  once,                   \* sanitizeMarkdown(text)
  twice,                  \* sanitizeMarkdown(sanitizeMarkdown(text))
  ppc,                    \* position of the parseAIResponse exercise
  aiResponse,             \* a classifier reply handed to parseAIResponse
  parsed,                 \* parseAIResponse(aiResponse)
  prpc,                   \* position of the buildAnalysisPromptWithContext exercise
  tradingPairs,           \* the registry list handed to buildAnalysisPromptWithContext
  displayPairs,           \* local "displayPairs": the candidates written into the prompt
  cfpc,                   \* position of each promptManager.getConfig() call
  cfOutcome,              \* how each getConfig() promise settled
  initialized,            \* PromptManagerV2.initialized
  cachedConfig,           \* PromptManagerV2.cachedConfig is set and younger than 5 minutes
  enabledRows             \* rows of prompt_configs with enabled = TRUE

gateVars == <<globalCount, groupAnalysis, maxConcurrentAnalysis>>
botVars == <<pc, chatOf, admitted, finishes, outcome, error, notice, pairTypeOf>>
apiVars == <<lastCall, calls>>
resolveVars == <<probeOk, rpc, message, result, secondResult, returned, routcome,
                 vArg, vPair, vType, validations, probes, classifyCalls,
                 registryFetches, grounding>>
deliverVars == <<upc, statusMessage, delivered, failures, logged>>
streamVars == <<stpc, chunksRead, fullContent, currentSegment, segmentCount, emitted,
                deliverVars>>
sanitizeVars == <<spc, text, once, twice>>
parseVars == <<ppc, aiResponse, parsed>>
promptVars == <<prpc, tradingPairs, displayPairs>>
configVars == <<cfpc, cfOutcome, initialized, cachedConfig, enabledRows>>
textVars == <<streamVars, sanitizeVars, parseVars, promptVars, configVars>>
vars == <<gateVars, botVars, apiVars, resolveVars, textVars>>

(* --------------------------- admission gate --------------------------- *)

\* Math.max(0, n)
MathMax0(n) == IF n < 0 THEN 0 ELSE n

canStartAnalysisNoGroupCheck(gc, ga, max, chatId) ==
  ~(gc >= max)

canStartAnalysis(gc, ga, max, chatId) ==
  IF gc >= max THEN FALSE
  ELSE IF ga[chatId] = "true" THEN FALSE
  ELSE TRUE

startAnalysisNoCount(gc, ga, chatId) ==
  [globalCount |-> gc, groupAnalysis |-> [ga EXCEPT ![chatId] = "true"]]

\* the state after startAnalysis when it does not throw
startAnalysis(gc, ga, chatId) ==
  [globalCount |-> gc + 1, groupAnalysis |-> [ga EXCEPT ![chatId] = "true"]]

finishAnalysisKeepsFlag(gc, ga, chatId) ==
  IF ga[chatId] = "true"
    THEN [globalCount |-> MathMax0(gc - 1), groupAnalysis |-> ga]
    ELSE [globalCount |-> gc, groupAnalysis |-> ga]

finishAnalysis(gc, ga, chatId) ==
  IF ga[chatId] = "true"
    THEN [globalCount |-> MathMax0(gc - 1),
          groupAnalysis |-> [ga EXCEPT ![chatId] = "false"]]
    ELSE [globalCount |-> gc, groupAnalysis |-> ga]

cleanup(ga) ==
  [c \in Chats |-> IF ga[c] = "false" THEN "unset" ELSE ga[c]]

\* getStatus().activeGroups
activeGroups(ga) == {c \in Chats : ga[c] = "true"}

(* ----------------- direct calls on the manager (SpecGate) -------------- *)

InitGate ==
  /\ globalCount = 0
  /\ groupAnalysis = [c \in Chats |-> "unset"]
  /\ maxConcurrentAnalysis \in ConfigValues

InitBot ==
  /\ pc = [h \in Handlers |-> "idle"]
  /\ chatOf = [h \in Handlers |-> 1]
  /\ admitted = [h \in Handlers |-> FALSE]
  /\ finishes = [h \in Handlers |-> 0]
  /\ outcome = [h \in Handlers |-> "none"]
  /\ error = [h \in Handlers |-> "none"]
  /\ notice = [h \in Handlers |-> "none"]
  /\ pairTypeOf = [h \in Handlers |-> "spot"]

InitApi ==
  /\ lastCall = [op |-> "none", chatId |-> 1, threw |-> FALSE]
  /\ calls = 0

CallStartAnalysis(c) ==
  /\ calls < MaxCalls
  /\ calls' = calls + 1
  /\ IF canStartAnalysis(globalCount, groupAnalysis, maxConcurrentAnalysis, c)
       THEN LET s == startAnalysis(globalCount, groupAnalysis, c) IN
            /\ globalCount' = s.globalCount
            /\ groupAnalysis' = s.groupAnalysis
            /\ lastCall' = [op |-> "startAnalysis", chatId |-> c, threw |-> FALSE]
       ELSE /\ UNCHANGED <<globalCount, groupAnalysis>>
            /\ lastCall' = [op |-> "startAnalysis", chatId |-> c, threw |-> TRUE]
  /\ UNCHANGED <<maxConcurrentAnalysis, botVars, resolveVars, textVars>>

CallFinishAnalysisUnguarded(c) ==
  /\ calls < MaxCalls
  /\ calls' = calls + 1
  /\ globalCount' = MathMax0(globalCount - 1)
  /\ groupAnalysis' = [groupAnalysis EXCEPT ![c] = "false"]
  /\ lastCall' = [op |-> "finishAnalysis", chatId |-> c, threw |-> FALSE]
  /\ UNCHANGED <<maxConcurrentAnalysis, botVars, resolveVars, textVars>>

CallFinishAnalysis(c) ==
  /\ calls < MaxCalls
  /\ calls' = calls + 1
  /\ LET s == finishAnalysis(globalCount, groupAnalysis, c) IN
       /\ globalCount' = s.globalCount
       /\ groupAnalysis' = s.groupAnalysis
  /\ lastCall' = [op |-> "finishAnalysis", chatId |-> c, threw |-> FALSE]
  /\ UNCHANGED <<maxConcurrentAnalysis, botVars, resolveVars, textVars>>

CallCleanup ==
  /\ calls < MaxCalls
  /\ calls' = calls + 1
  /\ groupAnalysis' = cleanup(groupAnalysis)
  /\ lastCall' = [op |-> "cleanup", chatId |-> 1, threw |-> FALSE]
  /\ UNCHANGED <<globalCount, maxConcurrentAnalysis, botVars, resolveVars, textVars>>

(* ------------------------- handleTextMessage --------------------------- *)

\* the market whose REST API getKlineData reads: BINANCE_API_BASE, whatever the
\* market type of the pair
getKlineDataMarket(pairType) == "spot"

\* awaits inside the try block that simply continue with the next statement
NextStage(p) ==
  CASE p = "typing1" -> "analyze"
    [] p = "typing2" -> "status"
    [] p = "status"  -> "kline"
    [] p = "kline"   -> "edit"
    [] p = "edit"    -> "stream"

LinearStages == {"typing1", "typing2", "status", "kline", "edit"}
\* awaits inside the try block whose rejection reaches the catch clause
ThrowingStages == LinearStages \cup {"ack", "noPair", "stream"}
InFlight(h) == admitted[h] /\ pc[h] # "done"

\* the finally clause of handleTextMessage (and of withConcurrencyControl),
\* then the promise settles
Finally(h, how) ==
  LET s == finishAnalysis(globalCount, groupAnalysis, chatOf[h]) IN
  /\ globalCount' = s.globalCount
  /\ groupAnalysis' = s.groupAnalysis
  /\ finishes' = [finishes EXCEPT ![h] = @ + 1]
  /\ pc' = [pc EXCEPT ![h] = "done"]
  /\ outcome' = [outcome EXCEPT ![h] = how]
  /\ pairTypeOf' = [pairTypeOf EXCEPT ![h] = "spot"]
  /\ UNCHANGED <<maxConcurrentAnalysis, chatOf, admitted, apiVars, resolveVars, textVars>>

\* the text handleAnalysisError sends for an error; "Error" stands for a value
\* that is not a TradingAnalysisError, every other string for the code of one
handleAnalysisError(code) ==
  CASE code = "Error" -> "genericNotice"
    [] code = "INVALID_SYMBOL" -> "invalidSymbolNotice"
    [] code = "RATE_LIMIT" -> "rateLimitNotice"
    [] code = "CONCURRENCY_LIMIT" -> "concurrencyNotice"
    [] code = "OPENAI_ERROR_401" -> "authNotice"
    [] code = "BINANCE_API_ERROR" -> "marketDataNotice"
    [] OTHER -> "errorMessageText"

\* codes of the TradingAnalysisError thrown by the klines fetch
KlineErrors == {"BINANCE_API_ERROR", "INVALID_SYMBOL", "RATE_LIMIT"}

\* what analyzeStreamingTrading rejects with: the transport's plain Error,
\* rethrown as it is, or a TradingAnalysisError of its own
StreamErrors == {"Error", "EMPTY_ANALYSIS_RESULT"}

\* what the await of each stage inside the try block can reject with
StageErrors(p) ==
  CASE p = "kline" -> KlineErrors
    [] p = "stream" -> StreamErrors
    [] OTHER -> {"Error"}

ErrorCodes == KlineErrors \cup StreamErrors

\* a message arrives: everything up to the first await
HandleTextMessage(h, c, kind) ==
  /\ pc[h] \in {"idle", "done"}
  /\ chatOf' = [chatOf EXCEPT ![h] = c]
  /\ finishes' = [finishes EXCEPT ![h] = 0]
  /\ notice' = [notice EXCEPT ![h] = "none"]
  /\ error' = [error EXCEPT ![h] =
                 IF kind = "text"
                    /\ ~canStartAnalysis(globalCount, groupAnalysis, maxConcurrentAnalysis, c)
                   THEN "CONCURRENCY_LIMIT" ELSE "none"]
  /\ UNCHANGED <<maxConcurrentAnalysis, pairTypeOf, apiVars, resolveVars, textVars>>
  /\ CASE kind \in {"noText", "blank"} ->
            /\ pc' = [pc EXCEPT ![h] = "preReply"]
            /\ admitted' = [admitted EXCEPT ![h] = FALSE]
            /\ outcome' = [outcome EXCEPT ![h] = "none"]
            /\ UNCHANGED <<globalCount, groupAnalysis>>
       [] kind = "notForBot" ->
            /\ pc' = [pc EXCEPT ![h] = "done"]
            /\ admitted' = [admitted EXCEPT ![h] = FALSE]
            /\ outcome' = [outcome EXCEPT ![h] = "returned"]
            /\ UNCHANGED <<globalCount, groupAnalysis>>
       [] kind = "text" ->
            IF ~canStartAnalysis(globalCount, groupAnalysis, maxConcurrentAnalysis, c)
              THEN /\ pc' = [pc EXCEPT ![h] = "deny"]
                   /\ admitted' = [admitted EXCEPT ![h] = FALSE]
                   /\ outcome' = [outcome EXCEPT ![h] = "none"]
                   /\ UNCHANGED <<globalCount, groupAnalysis>>
              ELSE LET s == startAnalysis(globalCount, groupAnalysis, c) IN
                   /\ globalCount' = s.globalCount
                   /\ groupAnalysis' = s.groupAnalysis
                   /\ pc' = [pc EXCEPT ![h] = "typing1"]
                   /\ admitted' = [admitted EXCEPT ![h] = TRUE]
                   /\ outcome' = [outcome EXCEPT ![h] = "none"]

\* the reply sent before admission (lines 293, 311) or the CONCURRENCY_LIMIT
\* notice (line 334) settles; these paths are outside the try block
UnadmittedNotice(h) ==
  IF pc[h] = "deny" THEN handleAnalysisError(error[h]) ELSE "invalidTextNotice"

UnadmittedReplySettlesReleases(h, threw) ==
  /\ pc[h] \in {"preReply", "deny"}
  /\ notice' = [notice EXCEPT ![h] = IF threw THEN "none" ELSE UnadmittedNotice(h)]
  /\ error' = [error EXCEPT ![h] = "none"]
  /\ Finally(h, IF threw THEN "threw" ELSE "returned")

UnadmittedReplySettles(h, threw) ==
  /\ pc[h] \in {"preReply", "deny"}
  /\ pc' = [pc EXCEPT ![h] = "done"]
  /\ outcome' = [outcome EXCEPT ![h] = IF threw THEN "threw" ELSE "returned"]
  /\ notice' = [notice EXCEPT ![h] = IF threw THEN "none" ELSE UnadmittedNotice(h)]
  /\ error' = [error EXCEPT ![h] = "none"]
  /\ UNCHANGED <<gateVars, chatOf, admitted, finishes, pairTypeOf, apiVars, resolveVars,
                 textVars>>

AwaitResolves(h) ==
  /\ pc[h] \in LinearStages
  /\ pc' = [pc EXCEPT ![h] = NextStage(pc[h])]
  /\ UNCHANGED <<gateVars, chatOf, admitted, finishes, outcome, error, notice, pairTypeOf, apiVars,
                 resolveVars, textVars>>

\* analyzeMessage returns its verdict (it catches every error itself)
AnalyzeMessageReturns(h, isTradeAnalysis, hasPair, pairType) ==
  /\ pc[h] = "analyze"
  /\ pairTypeOf' = [pairTypeOf EXCEPT ![h] =
                      IF isTradeAnalysis /\ hasPair THEN pairType ELSE "spot"]
  /\ pc' = [pc EXCEPT ![h] = IF ~isTradeAnalysis THEN "ack"
                             ELSE IF ~hasPair THEN "noPair"
                             ELSE "typing2"]
  /\ UNCHANGED <<gateVars, chatOf, admitted, finishes, outcome, error, notice, apiVars,
                 resolveVars, textVars>>

\* the reply of an early return inside the try block was sent
ReplySentReturn(h) ==
  /\ pc[h] \in {"ack", "noPair"}
  /\ notice' = [notice EXCEPT ![h] = IF pc[h] = "ack" THEN "nonAnalysisAck"
                                     ELSE "pairNotFoundNotice"]
  /\ UNCHANGED error
  /\ Finally(h, "returned")

\* analyzeStreamingTrading resolves: the segments were handed to onUpdate
StreamCompletes(h) ==
  /\ pc[h] = "stream"
  /\ notice' = [notice EXCEPT ![h] = "analysisSegments"]
  /\ UNCHANGED error
  /\ Finally(h, "returned")

AwaitRejectsRetriesStream(h, err) ==
  /\ pc[h] \in ThrowingStages
  /\ err \in StageErrors(pc[h])
  /\ pc' = [pc EXCEPT ![h] = IF pc[h] = "stream" THEN "edit" ELSE "catch"]
  /\ error' = [error EXCEPT ![h] = err]
  /\ UNCHANGED <<gateVars, chatOf, admitted, finishes, outcome, notice, pairTypeOf, apiVars,
                 resolveVars, textVars>>

AwaitRejects(h, err) ==
  /\ pc[h] \in ThrowingStages
  /\ err \in StageErrors(pc[h])
  /\ pc' = [pc EXCEPT ![h] = "catch"]
  /\ error' = [error EXCEPT ![h] = err]
  /\ UNCHANGED <<gateVars, chatOf, admitted, finishes, outcome, notice, pairTypeOf, apiVars,
                 resolveVars, textVars>>

\* handleAnalysisError in the catch clause settles; it may itself throw
ErrorHandlerSettles(h, threw) ==
  /\ pc[h] = "catch"
  /\ notice' = [notice EXCEPT ![h] = IF threw THEN "none" ELSE handleAnalysisError(error[h])]
  /\ error' = [error EXCEPT ![h] = "none"]
  /\ Finally(h, IF threw THEN "threw" ELSE "returned")

\* a call of a function wrapped by withConcurrencyControl: up to "await fn"
WithConcurrencyControl(h, c, hasChatId) ==
  /\ pc[h] \in {"idle", "done"}
  /\ chatOf' = [chatOf EXCEPT ![h] = c]
  /\ finishes' = [finishes EXCEPT ![h] = 0]
  /\ notice' = [notice EXCEPT ![h] = "none"]
  /\ error' = [error EXCEPT ![h] = "none"]
  /\ UNCHANGED <<maxConcurrentAnalysis, pairTypeOf, apiVars, resolveVars, textVars>>
  /\ IF ~hasChatId
          \/ ~canStartAnalysis(globalCount, groupAnalysis, maxConcurrentAnalysis, c)
       THEN /\ pc' = [pc EXCEPT ![h] = "done"]
            /\ admitted' = [admitted EXCEPT ![h] = FALSE]
            /\ outcome' = [outcome EXCEPT ![h] = "threw"]
            /\ UNCHANGED <<globalCount, groupAnalysis>>
       ELSE LET s == startAnalysis(globalCount, groupAnalysis, c) IN
            /\ globalCount' = s.globalCount
            /\ groupAnalysis' = s.groupAnalysis
            /\ pc' = [pc EXCEPT ![h] = "wrapped"]
            /\ admitted' = [admitted EXCEPT ![h] = TRUE]
            /\ outcome' = [outcome EXCEPT ![h] = "none"]

\* the wrapped function settles; the finally clause of the wrapper runs
WrappedSettles(h, threw) ==
  /\ pc[h] = "wrapped"
  /\ UNCHANGED <<error, notice>>
  /\ Finally(h, IF threw THEN "threw" ELSE "returned")

ReloadConfig(m) ==
  /\ m # maxConcurrentAnalysis
  /\ maxConcurrentAnalysis' = m
  /\ UNCHANGED <<globalCount, groupAnalysis, botVars, apiVars, resolveVars, textVars>>

(* ------------------- strings and JSON values -------------------------- *)

\* strings are sequences of one-character strings
toUpperChar(ch) ==
  CASE ch = "b" -> "B" [] ch = "t" -> "T" [] ch = "c" -> "C" [] OTHER -> ch

toUpperCase(s) == [i \in 1..Len(s) |-> toUpperChar(s[i])]

RECURSIVE trimStart(_)
trimStart(s) ==
  IF s # <<>> /\ Head(s) = " " THEN trimStart(Tail(s)) ELSE s

RECURSIVE trimEnd(_)
trimEnd(s) ==
  IF s # <<>> /\ s[Len(s)] = " " THEN trimEnd(SubSeq(s, 1, Len(s) - 1)) ELSE s

trim(s) == trimEnd(trimStart(s))

\* a decoded JSON value: its typeof tag and its text
JNull == [t |-> "null", v |-> <<>>]
JNum == [t |-> "number", v |-> <<"4", "2">>]
JBool(b) == [t |-> "boolean", v |-> IF b THEN <<"true">> ELSE <<"false">>]
JStr(s) == [t |-> "string", v |-> s]

\* JavaScript truthiness of a decoded value
Truthy(j) ==
  CASE j.t = "null" -> FALSE
    [] j.t = "boolean" -> j.v = <<"true">>
    [] j.t = "string" -> j.v # <<>>
    [] OTHER -> TRUE

SymBTC == <<"B", "T", "C">>
SymNEAR == <<"N", "E", "A", "R">>
RawBTC == <<" ", "b", "t", "c">>
Symbols == {SymBTC, SymNEAR}
MarketTypes == {"spot", "futures"}

\* what the model may answer in the three fields of its JSON reply
ReplyIsTrade == {JBool(TRUE), JBool(FALSE), JNull}
ReplyPair == {JNull, JNum, JStr(<<>>), JStr(SymBTC), JStr(RawBTC), JStr(SymNEAR)}
ReplyType ==
  {JNull, JStr(<<"spot">>), JStr(<<"futures">>), JStr(<<"margin">>), JNum, JBool(FALSE)}

Replies ==
  [decodable : {TRUE}, isTradeAnalysis : ReplyIsTrade,
   tradingPair : ReplyPair, tradingPairType : ReplyType]
  \cup
  [decodable : {FALSE}, isTradeAnalysis : {JNull},
   tradingPair : {JNull}, tradingPairType : {JNull}]

\* exchangeInfo answers of the two markets
Universes ==
  { [spot |-> <<>>, futures |-> <<>>],
    [spot |-> <<SymBTC>>, futures |-> <<SymBTC, SymNEAR>>] }

NoGrounding == [spot |-> <<>>, futures |-> <<>>, given |-> FALSE]

(* -------------------------- verdicts ----------------------------------- *)

\* confidence is kept in tenths: 9 is 0.9
Verdict(isTrade, pair, type, conf, err) ==
  [isTradeAnalysis |-> isTrade, tradingPair |-> pair, tradingPairType |-> type,
   confidence |-> conf, hasAIError |-> err]

NoVerdict == Verdict(FALSE, JNull, "spot", -1, "absent")

\* the catch clause of parseAIResponse
ParseFailure == Verdict(FALSE, JNull, "spot", 0, "true")

\* parseAIResponse as it was before its fallback carried the error flag
parseAIResponseUnflagged(reply) ==
  IF \/ ~reply.decodable
     \/ reply.isTradeAnalysis.t # "boolean"
     \/ reply.tradingPair # JNull /\ reply.tradingPair.t # "string"
     \/ Truthy(reply.tradingPairType)
          /\ reply.tradingPairType.v \notin {<<"spot">>, <<"futures">>}
    THEN Verdict(FALSE, JNull, "spot", 0, "absent")
    ELSE Verdict(reply.isTradeAnalysis.v = <<"true">>,
                 reply.tradingPair,
                 IF Truthy(reply.tradingPairType) THEN reply.tradingPairType.v[1] ELSE "spot",
                 9, "absent")

parseAIResponse(reply) ==
  IF ~reply.decodable THEN ParseFailure
  ELSE IF reply.isTradeAnalysis.t # "boolean" THEN ParseFailure
  ELSE IF reply.tradingPair # JNull /\ reply.tradingPair.t # "string" THEN ParseFailure
  ELSE IF Truthy(reply.tradingPairType)
          /\ reply.tradingPairType.v \notin {<<"spot">>, <<"futures">>}
    THEN ParseFailure
  ELSE Verdict(reply.isTradeAnalysis.v = <<"true">>,
               reply.tradingPair,
               IF Truthy(reply.tradingPairType) THEN reply.tradingPairType.v[1] ELSE "spot",
               9, "absent")

\* the catch clause of analyzeMessageWithContext
SecondPassFailure == Verdict(TRUE, JNull, "spot", 1, "true")

\* the early return of analyzeMessage for an empty message
EmptyMessageVerdict == Verdict(FALSE, JNull, "spot", 10, "false")

\* the outer catch clause of analyzeMessage
OuterCatch == [how |-> "returned", verdict |-> Verdict(FALSE, JNull, "spot", 0, "true")]

(* ---------------------- validateTradingPairByAPI ----------------------- *)

cleanPair(pair) == toUpperCase(trim(pair))

fallbackType(tradingPairType) ==
  IF tradingPairType = "spot" THEN "futures" ELSE "spot"

\* the klines request for (symbol, market) answers without error or timeout
ProbeAnswer(symbol, market) == <<symbol, market>> \in probeOk

ValidationPrimaryOkDropsType(pair, tradingPairType) ==
  [isValid |-> TRUE, validatedPair |-> JStr(pair), finalTradingPairType |-> "spot"]

ValidationPrimaryOk(pair, tradingPairType) ==
  [isValid |-> TRUE, validatedPair |-> JStr(pair), finalTradingPairType |-> tradingPairType]

ValidationFallbackOkKeepsGuess(pair, tradingPairType) ==
  [isValid |-> TRUE, validatedPair |-> JStr(pair), finalTradingPairType |-> tradingPairType]

ValidationFallbackOk(pair, tradingPairType) ==
  [isValid |-> TRUE, validatedPair |-> JStr(pair),
   finalTradingPairType |-> fallbackType(tradingPairType)]

ValidationFailed(pair, tradingPairType) ==
  [isValid |-> FALSE, validatedPair |-> JNull, finalTradingPairType |-> tradingPairType]

(* ----------------------------- analyzeMessage -------------------------- *)

InitResolve ==
  /\ probeOk \in SUBSET (Symbols \X MarketTypes)
  /\ rpc = "idle"
  /\ message = <<>>
  /\ result = NoVerdict
  /\ secondResult = NoVerdict
  /\ returned = NoVerdict
  /\ routcome = "none"
  /\ vArg = <<>>
  /\ vPair = <<>>
  /\ vType = "spot"
  /\ validations = <<>>
  /\ probes = <<>>
  /\ classifyCalls = 0
  /\ registryFetches = 0
  /\ grounding = NoGrounding

Messages == {<<>>, <<" ">>, <<" ", "x">>}

\* analyzeMessage settles with verdict v
Return(v) ==
  /\ rpc' = "done"
  /\ returned' = v
  /\ routcome' = "returned"

\* validateTradingPairByAPI is entered and issues its first klines request
\* (its "if (!pair)" early return cannot be taken: both call sites test the
\* pair for truthiness first)
BeginValidation(pair, tradingPairType, next) ==
  /\ vArg' = pair.v
  /\ vPair' = cleanPair(pair.v)
  /\ vType' = tradingPairType
  /\ probes' = Append(probes, <<cleanPair(pair.v), tradingPairType>>)
  /\ rpc' = next

\* getEnhancedTradingPairs is called
BeginSecondPass ==
  /\ registryFetches' = registryFetches + 1
  /\ rpc' = "registry"

ValidationRecord(pass, val) ==
  [pass |-> pass, arg |-> vArg, pair |-> vPair, guess |-> vType,
   isValid |-> val.isValid,
   validatedPair |-> val.validatedPair,
   finalTradingPairType |-> val.finalTradingPairType]

ApplyValidationKeepsType(v, val) ==
  [v EXCEPT !.tradingPair = val.validatedPair]

\* result.tradingPair = validatedPair; result.tradingPairType = finalTradingPairType
ApplyValidation(v, val) ==
  [v EXCEPT !.tradingPair = val.validatedPair,
            !.tradingPairType = val.finalTradingPairType]

\* result.isTradeAnalysis && result.tradingPair
\* result.isTradeAnalysis && result.tradingPair
NeedsValidation(r) == r.isTradeAnalysis /\ Truthy(r.tradingPair)

NoSymbolNeverSecondPass(r) == FALSE

\* result.isTradeAnalysis && result.tradingPair === null
NoSymbolNeedsSecondPass(r) == r.isTradeAnalysis /\ r.tradingPair = JNull

InnerCatchPropagates(r) == [how |-> "threw", verdict |-> NoVerdict]

\* the catch clause around the second pass logs and falls through to "return result"
InnerCatch(r) == [how |-> "returned", verdict |-> r]

\* the guard "!message || message.trim().length === 0" of analyzeMessage
isBlankOnlyEmpty(msg) == msg = <<>>

isBlank(msg) == msg = <<>> \/ Len(trim(msg)) = 0

AnalyzeMessage(msg) ==
  /\ rpc = "idle"
  /\ message' = msg
  /\ IF isBlank(msg)
       THEN /\ Return(EmptyMessageVerdict)
            /\ UNCHANGED classifyCalls
       ELSE /\ classifyCalls' = classifyCalls + 1
            /\ rpc' = "first"
            /\ UNCHANGED <<returned, routcome>>
  /\ UNCHANGED <<probeOk, result, secondResult, vArg, vPair, vType, validations, probes,
                 registryFetches, grounding>>
  /\ UNCHANGED <<gateVars, botVars, apiVars, textVars>>

\* the first callAIAPI throws: the outer catch clause runs
FirstClassifyFails ==
  /\ rpc = "first"
  /\ rpc' = "done"
  /\ returned' = OuterCatch.verdict
  /\ routcome' = OuterCatch.how
  /\ UNCHANGED <<probeOk, message, result, secondResult, vArg, vPair, vType, validations,
                 probes, classifyCalls, registryFetches, grounding>>
  /\ UNCHANGED <<gateVars, botVars, apiVars, textVars>>

FirstClassifyReplies(reply) ==
  /\ rpc = "first"
  /\ LET r == parseAIResponse(reply) IN
     /\ result' = r
     /\ IF NeedsValidation(r)
          THEN /\ BeginValidation(r.tradingPair, r.tradingPairType, "probe1")
               /\ UNCHANGED <<returned, routcome, registryFetches>>
          ELSE IF NoSymbolNeedsSecondPass(r)
            THEN /\ BeginSecondPass
                 /\ UNCHANGED <<returned, routcome, vArg, vPair, vType, probes>>
            ELSE /\ Return(r)
                 /\ UNCHANGED <<vArg, vPair, vType, probes, registryFetches>>
  /\ UNCHANGED <<probeOk, message, secondResult, validations, classifyCalls, grounding>>
  /\ UNCHANGED <<gateVars, botVars, apiVars, textVars>>

\* validation of the first-pass pair finished with val
FirstValidationDone(val) ==
  /\ validations' = Append(validations, ValidationRecord(1, val))
  /\ IF val.isValid
       THEN /\ result' = ApplyValidation(result, val)
            /\ Return(ApplyValidation(result, val))
            /\ UNCHANGED registryFetches
       ELSE /\ BeginSecondPass
            /\ UNCHANGED <<result, returned, routcome>>

FirstProbeSettles ==
  /\ rpc = "probe1"
  /\ IF ProbeAnswer(vPair, vType)
       THEN /\ FirstValidationDone(ValidationPrimaryOk(vPair, vType))
            /\ UNCHANGED probes
       ELSE /\ probes' = Append(probes, <<vPair, fallbackType(vType)>>)
            /\ rpc' = "fallback1"
            /\ UNCHANGED <<result, returned, routcome, validations, registryFetches>>
  /\ UNCHANGED <<probeOk, message, secondResult, vArg, vPair, vType, classifyCalls, grounding>>
  /\ UNCHANGED <<gateVars, botVars, apiVars, textVars>>

FirstFallbackSettlesIgnoresAnswer ==
  /\ rpc = "fallback1"
  /\ FirstValidationDone(ValidationFailed(vPair, vType))
  /\ UNCHANGED <<probeOk, message, secondResult, vArg, vPair, vType, probes,
                 classifyCalls, grounding>>
  /\ UNCHANGED <<gateVars, botVars, apiVars, textVars>>

FirstFallbackSettles ==
  /\ rpc = "fallback1"
  /\ IF ProbeAnswer(vPair, fallbackType(vType))
       THEN FirstValidationDone(ValidationFallbackOk(vPair, vType))
       ELSE FirstValidationDone(ValidationFailed(vPair, vType))
  /\ UNCHANGED <<probeOk, message, secondResult, vArg, vPair, vType, probes,
                 classifyCalls, grounding>>
  /\ UNCHANGED <<gateVars, botVars, apiVars, textVars>>

\* getEnhancedTradingPairs resolves; analyzeMessageWithContext calls callAIAPI
RegistryReturns(u) ==
  /\ rpc = "registry"
  /\ grounding' = [spot |-> u.spot, futures |-> u.futures, given |-> TRUE]
  /\ classifyCalls' = classifyCalls + 1
  /\ rpc' = "second"
  /\ UNCHANGED <<probeOk, message, result, secondResult, returned, routcome, vArg, vPair,
                 vType, validations, probes, registryFetches>>
  /\ UNCHANGED <<gateVars, botVars, apiVars, textVars>>

\* getEnhancedTradingPairs throws when either exchangeInfo request fails
RegistryFails ==
  /\ rpc = "registry"
  /\ rpc' = "done"
  /\ returned' = InnerCatch(result).verdict
  /\ routcome' = InnerCatch(result).how
  /\ UNCHANGED <<probeOk, message, result, secondResult, vArg, vPair, vType, validations,
                 probes, classifyCalls, registryFetches, grounding>>
  /\ UNCHANGED <<gateVars, botVars, apiVars, textVars>>

\* the second callAIAPI throws inside analyzeMessageWithContext
SecondClassifyFails ==
  /\ rpc = "second"
  /\ secondResult' = SecondPassFailure
  /\ Return(result)
  /\ UNCHANGED <<probeOk, message, result, vArg, vPair, vType, validations, probes,
                 classifyCalls, registryFetches, grounding>>
  /\ UNCHANGED <<gateVars, botVars, apiVars, textVars>>

SecondClassifyReplies(reply) ==
  /\ rpc = "second"
  /\ LET r == parseAIResponse(reply) IN
     /\ secondResult' = r
     /\ IF Truthy(r.tradingPair)
          THEN /\ BeginValidation(r.tradingPair, r.tradingPairType, "probe2")
               /\ UNCHANGED <<returned, routcome>>
          ELSE /\ Return(result)
               /\ UNCHANGED <<vArg, vPair, vType, probes>>
  /\ UNCHANGED <<probeOk, message, result, validations, classifyCalls,
                 registryFetches, grounding>>
  /\ UNCHANGED <<gateVars, botVars, apiVars, textVars>>

\* validation of the second-pass pair finished with val
SecondValidationDone(val) ==
  /\ validations' = Append(validations, ValidationRecord(2, val))
  /\ IF val.isValid
       THEN /\ secondResult' = ApplyValidation(secondResult, val)
            /\ Return(ApplyValidation(secondResult, val))
       ELSE /\ Return(result)
            /\ UNCHANGED secondResult

SecondProbeSettles ==
  /\ rpc = "probe2"
  /\ IF ProbeAnswer(vPair, vType)
       THEN /\ SecondValidationDone(ValidationPrimaryOk(vPair, vType))
            /\ UNCHANGED probes
       ELSE /\ probes' = Append(probes, <<vPair, fallbackType(vType)>>)
            /\ rpc' = "fallback2"
            /\ UNCHANGED <<secondResult, returned, routcome, validations>>
  /\ UNCHANGED <<probeOk, message, result, vArg, vPair, vType, classifyCalls,
                 registryFetches, grounding>>
  /\ UNCHANGED <<gateVars, botVars, apiVars, textVars>>

SecondFallbackSettles ==
  /\ rpc = "fallback2"
  /\ IF ProbeAnswer(vPair, fallbackType(vType))
       THEN SecondValidationDone(ValidationFallbackOk(vPair, vType))
       ELSE SecondValidationDone(ValidationFailed(vPair, vType))
  /\ UNCHANGED <<probeOk, message, result, vArg, vPair, vType, probes, classifyCalls,
                 registryFetches, grounding>>
  /\ UNCHANGED <<gateVars, botVars, apiVars, textVars>>

(* --------------------------- specifications ---------------------------- *)

\* concurrently running handleTextMessage invocations and config reloads
(* ------------------------- markdown sanitizer -------------------------- *)

\* (text.match(/c/g) || []).length
count(s, c) == Cardinality({i \in 1..Len(s) : s[i] = c})

\* s.lastIndexOf(c), counted from 1; 0 when c does not occur
lastIndexOf(s, c) ==
  IF \E i \in 1..Len(s) : s[i] = c
    THEN CHOOSE i \in 1..Len(s) : s[i] = c /\ \A j \in (i + 1)..Len(s) : s[j] # c
    ELSE 0

removeAtDropsRest(s, i) == SubSeq(s, 1, i - 1)

\* s.substring(0, i) + s.substring(i + 1), with i counted from 1
removeAt(s, i) == SubSeq(s, 1, i - 1) \o SubSeq(s, i + 1, Len(s))

\* one of the three "if (n % 2 !== 0)" blocks of sanitizeMarkdown: n is the
\* number of marks c counted in the text as it was given
dropUnpairedAlways(s, c, n) ==
  IF lastIndexOf(s, c) # 0 THEN removeAt(s, lastIndexOf(s, c)) ELSE s

dropUnpaired(s, c, n) ==
  IF n % 2 # 0 /\ lastIndexOf(s, c) # 0 THEN removeAt(s, lastIndexOf(s, c)) ELSE s

\* the grave accent that marks code, written as an acute one
Backtick == "'"

sanitizeMarkdownBoldOnly(t) == dropUnpaired(t, "*", count(t, "*"))

sanitizeMarkdown(t) ==
  LET boldCount == count(t, "*")
      codeCount == count(t, Backtick)
      underlineCount == count(t, "_")
  IN dropUnpaired(dropUnpaired(dropUnpaired(t, "*", boldCount), Backtick, codeCount),
                  "_", underlineCount)

MarkdownChars == {"*", Backtick, "_", "a"}
Texts == UNION {[1..n -> MarkdownChars] : n \in 0..MaxLen}

InitSanitize ==
  /\ spc = "idle"
  /\ text = <<>>
  /\ once = <<>>
  /\ twice = <<>>

\* every text up to MaxLen is about to be sanitized
InitSanitizeTexts ==
  /\ spc = "ready"
  /\ text \in Texts
  /\ once = <<>>
  /\ twice = <<>>

Sanitize ==
  /\ spc = "ready"
  /\ spc' = "once"
  /\ once' = sanitizeMarkdown(text)
  /\ UNCHANGED <<text, twice>>
  /\ UNCHANGED <<gateVars, botVars, apiVars, resolveVars, streamVars, parseVars,
                 promptVars, configVars>>

SanitizeAgain ==
  /\ spc = "once"
  /\ spc' = "twice"
  /\ twice' = sanitizeMarkdown(once)
  /\ UNCHANGED <<text, once>>
  /\ UNCHANGED <<gateVars, botVars, apiVars, resolveVars, streamVars, parseVars,
                 promptVars, configVars>>

(* ------------------------- streaming segmenter ------------------------- *)

\* the sentinels '[SEGMENT_COMPLETE]' and '[ANALYSIS_COMPLETE]', shortened
SegmentComplete == <<"[", "S", "]">>
AnalysisComplete == <<"[", "A", "]">>

\* s.includes(m)
includes(s, m) == \E i \in 1..(Len(s) - Len(m) + 1) : SubSeq(s, i, i + Len(m) - 1) = m

\* s.indexOf(m), counted from 1; 0 when m does not occur
indexOf(s, m) ==
  IF includes(s, m)
    THEN CHOOSE i \in 1..(Len(s) - Len(m) + 1) :
           /\ SubSeq(s, i, i + Len(m) - 1) = m
           /\ \A j \in 1..(i - 1) : SubSeq(s, j, j + Len(m) - 1) # m
    ELSE 0

\* s.replace(m, ''): the first occurrence only
replaceFirst(s, m) ==
  IF indexOf(s, m) = 0 THEN s
  ELSE SubSeq(s, 1, indexOf(s, m) - 1) \o SubSeq(s, indexOf(s, m) + Len(m), Len(s))

hasMarker(buf) == includes(buf, SegmentComplete) \/ includes(buf, AnalysisComplete)

isAnalysisComplete(buf) == includes(buf, AnalysisComplete)

Min(a, b) == IF a < b THEN a ELSE b

markerIndex(buf) ==
  LET segmentCompleteIndex == indexOf(buf, SegmentComplete)
      analysisCompleteIndex == indexOf(buf, AnalysisComplete)
  IN IF segmentCompleteIndex # 0 /\ analysisCompleteIndex # 0
       THEN Min(segmentCompleteIndex, analysisCompleteIndex)
     ELSE IF segmentCompleteIndex # 0 THEN segmentCompleteIndex
     ELSE IF analysisCompleteIndex # 0 THEN analysisCompleteIndex
     ELSE 0

\* currentSegment.substring(0, markerIndex).trim()
currentSegmentContent(buf) == trim(SubSeq(buf, 1, markerIndex(buf) - 1))

\* what is kept of the buffer after a marker was handled
remainingSegment(buf) ==
  IF isAnalysisComplete(buf) THEN <<>>
  ELSE replaceFirst(replaceFirst(SubSeq(buf, markerIndex(buf), Len(buf)), SegmentComplete),
                    AnalysisComplete)

\* the disclaimer appended to the last segment, shortened: D stands for the
\* word looked for as "disclaimer", R for the one looked for as "for reference only"
Disclaimer == <<"-", "*", "D", "*", "R">>

formatSegmentContent(content, isComplete) ==
  LET sanitized == sanitizeMarkdown(content)
      formattedContent ==
        IF isComplete /\ ~includes(content, <<"D">>) /\ ~includes(content, <<"R">>)
          THEN sanitized \o Disclaimer
          ELSE sanitized
  IN sanitizeMarkdown(formattedContent)

\* segmentCount++
nextSegmentCountStuck(n) == n

nextSegmentCount(n) == n + 1

\* processAnalysisResult throws on a blank result
resultOutcome(full) == IF Len(trim(full)) = 0 THEN "failed" ELSE "done"

\* chunk.content values the model stream may deliver
ChunkContents ==
  { <<"a">>, <<" ">>, <<"*", "c">>, SegmentComplete, AnalysisComplete,
    <<"[">>, <<"S", "]">>, <<"[", "*">>,
    <<"a">> \o SegmentComplete \o <<"b", " ">> \o AnalysisComplete,
    <<"a">> \o SegmentComplete \o <<"b">> \o SegmentComplete }

InitStream ==
  /\ stpc = "idle"
  /\ chunksRead = 0
  /\ fullContent = <<>>
  /\ currentSegment = <<>>
  /\ segmentCount = 0
  /\ emitted = <<>>
  /\ upc = "none"
  /\ statusMessage = TRUE
  /\ delivered = <<>>
  /\ failures = 0
  /\ logged = 0

\* the call, up to the first read of the stream
AnalyzeStreamingTrading ==
  /\ stpc = "idle"
  /\ stpc' = "reading"
  /\ UNCHANGED <<chunksRead, fullContent, currentSegment, segmentCount, emitted, deliverVars>>
  /\ UNCHANGED <<gateVars, botVars, apiVars, resolveVars, sanitizeVars, parseVars,
                 promptVars, configVars>>

\* one turn of the loop on a chunk with content, up to the await of onUpdate
\* when a segment is cut, to the end of the turn otherwise
ReadChunk(content) ==
  /\ stpc = "reading"
  /\ chunksRead < MaxChunks
  /\ chunksRead' = chunksRead + 1
  /\ fullContent' = fullContent \o content
  /\ LET buf == currentSegment \o content IN
       IF hasMarker(buf)
         THEN IF currentSegmentContent(buf) # <<>>
                THEN /\ segmentCount' = nextSegmentCount(segmentCount)
                     /\ emitted' = Append(emitted,
                          [content |-> formatSegmentContent(currentSegmentContent(buf),
                                                            isAnalysisComplete(buf)),
                           isComplete |-> isAnalysisComplete(buf),
                           segmentCount |-> nextSegmentCount(segmentCount),
                           segment |-> currentSegmentContent(buf),
                           hardFirst |-> markerIndex(buf) = indexOf(buf, AnalysisComplete)])
                     /\ currentSegment' = buf
                     /\ stpc' = "onUpdate"
                     /\ upc' = "send"
                     /\ UNCHANGED <<statusMessage, delivered, failures, logged>>
                ELSE /\ currentSegment' = remainingSegment(buf)
                     /\ stpc' = IF isAnalysisComplete(buf)
                                  THEN resultOutcome(fullContent \o content)
                                  ELSE "reading"
                     /\ UNCHANGED <<segmentCount, emitted, deliverVars>>
         ELSE /\ currentSegment' = buf
              /\ UNCHANGED <<stpc, segmentCount, emitted, deliverVars>>
  /\ UNCHANGED <<gateVars, botVars, apiVars, resolveVars, sanitizeVars, parseVars,
                 promptVars, configVars>>

\* the segment onUpdate was called with
currentUpdate == emitted[Len(emitted)]

\* onUpdate resolves and the turn of the loop goes on behind the await: the
\* buffer is reset and the loop is left after the final segment
OnUpdateReturns ==
  /\ upc' = "none"
  /\ currentSegment' = remainingSegment(currentSegment)
  /\ stpc' = IF isAnalysisComplete(currentSegment) THEN resultOutcome(fullContent)
             ELSE "reading"

KeepTypingDetached ==
  IF ~currentUpdate.isComplete
    THEN /\ upc' = "action"
         /\ currentSegment' = remainingSegment(currentSegment)
         /\ stpc' = "reading"
    ELSE OnUpdateReturns

\* "if (!isComplete) await bot.sendChatAction(...)", or the end of the callback
KeepTypingOrReturn ==
  IF ~currentUpdate.isComplete
    THEN upc' = "action" /\ UNCHANGED <<stpc, currentSegment>>
    ELSE OnUpdateReturns

SendSafeMessageSettlesPropagates(threw) ==
  /\ stpc = "onUpdate" /\ upc = "send"
  /\ IF threw
       THEN /\ failures' = failures + 1
            /\ logged' = logged + 1
            /\ upc' = "none"
            /\ stpc' = "failed"
            /\ UNCHANGED <<delivered, statusMessage, currentSegment>>
       ELSE /\ delivered' = Append(delivered, currentUpdate.segmentCount)
            /\ IF statusMessage
                 THEN upc' = "delete" /\ UNCHANGED <<stpc, currentSegment>>
                 ELSE KeepTypingOrReturn
            /\ UNCHANGED <<statusMessage, failures, logged>>
  /\ UNCHANGED <<chunksRead, fullContent, segmentCount, emitted>>
  /\ UNCHANGED <<gateVars, botVars, apiVars, resolveVars, sanitizeVars, parseVars,
                 promptVars, configVars>>

\* await sendSafeMessage(chatId, content) settles
SendSafeMessageSettles(threw) ==
  /\ stpc = "onUpdate" /\ upc = "send"
  /\ IF threw
       THEN /\ failures' = failures + 1
            /\ logged' = logged + 1
            /\ OnUpdateReturns
            /\ UNCHANGED <<delivered, statusMessage>>
       ELSE /\ delivered' = Append(delivered, currentUpdate.segmentCount)
            /\ IF statusMessage
                 THEN upc' = "delete" /\ UNCHANGED <<stpc, currentSegment>>
                 ELSE KeepTypingOrReturn
            /\ UNCHANGED <<statusMessage, failures, logged>>
  /\ UNCHANGED <<chunksRead, fullContent, segmentCount, emitted>>
  /\ UNCHANGED <<gateVars, botVars, apiVars, resolveVars, sanitizeVars, parseVars,
                 promptVars, configVars>>

\* await bot.deleteMessage(chatId, msgId) settles; its own catch is empty
DeleteMessageSettles(threw) ==
  /\ stpc = "onUpdate" /\ upc = "delete"
  /\ statusMessage' = FALSE
  /\ failures' = IF threw THEN failures + 1 ELSE failures
  /\ KeepTypingOrReturn
  /\ UNCHANGED <<delivered, logged>>
  /\ UNCHANGED <<chunksRead, fullContent, segmentCount, emitted>>
  /\ UNCHANGED <<gateVars, botVars, apiVars, resolveVars, sanitizeVars, parseVars,
                 promptVars, configVars>>

\* await bot.sendChatAction(chatId, 'typing') settles
SendChatActionSettles(threw) ==
  /\ stpc = "onUpdate" /\ upc = "action"
  /\ failures' = IF threw THEN failures + 1 ELSE failures
  /\ logged' = IF threw THEN logged + 1 ELSE logged
  /\ OnUpdateReturns
  /\ UNCHANGED <<delivered, statusMessage>>
  /\ UNCHANGED <<chunksRead, fullContent, segmentCount, emitted>>
  /\ UNCHANGED <<gateVars, botVars, apiVars, resolveVars, sanitizeVars, parseVars,
                 promptVars, configVars>>

StreamEndsFlushes ==
  /\ stpc = "reading"
  /\ stpc' = resultOutcome(fullContent)
  /\ emitted' = IF trim(currentSegment) = <<>> THEN emitted
                ELSE Append(emitted,
                       [content |-> formatSegmentContent(trim(currentSegment), TRUE),
                        isComplete |-> TRUE,
                        segmentCount |-> nextSegmentCount(segmentCount),
                        segment |-> trim(currentSegment),
                        hardFirst |-> FALSE])
  /\ UNCHANGED <<chunksRead, fullContent, currentSegment, segmentCount, deliverVars>>
  /\ UNCHANGED <<gateVars, botVars, apiVars, resolveVars, sanitizeVars, parseVars,
                 promptVars, configVars>>

\* the chunk with finished = true, or the end of the stream without one
StreamEnds ==
  /\ stpc = "reading"
  /\ stpc' = resultOutcome(fullContent)
  /\ UNCHANGED <<chunksRead, fullContent, currentSegment, segmentCount, emitted, deliverVars>>
  /\ UNCHANGED <<gateVars, botVars, apiVars, resolveVars, sanitizeVars, parseVars,
                 promptVars, configVars>>

\* reading the stream throws; the catch clause rethrows
StreamFails ==
  /\ stpc = "reading"
  /\ stpc' = "failed"
  /\ UNCHANGED <<chunksRead, fullContent, currentSegment, segmentCount, emitted, deliverVars>>
  /\ UNCHANGED <<gateVars, botVars, apiVars, resolveVars, sanitizeVars, parseVars,
                 promptVars, configVars>>

(* --------------------------- parseAIResponse --------------------------- *)

InitParse ==
  /\ ppc = "idle"
  /\ aiResponse = CHOOSE r \in Replies : ~r.decodable
  /\ parsed = NoVerdict

\* every reply is about to be parsed
InitParseReplies ==
  /\ ppc = "ready"
  /\ aiResponse \in Replies
  /\ parsed = NoVerdict

ParseAIResponse ==
  /\ ppc = "ready"
  /\ ppc' = "parsed"
  /\ parsed' = parseAIResponse(aiResponse)
  /\ UNCHANGED aiResponse
  /\ UNCHANGED <<gateVars, botVars, apiVars, resolveVars, streamVars, sanitizeVars,
                 promptVars, configVars>>

(* -------------------- buildAnalysisPromptWithContext ------------------- *)

\* the quote currency 'USDT', shortened to one character
Quote == <<"U">>

\* the caps 1000 and 500 of the two slices, scaled down
UsdtCap == 2
OtherCap == 1

\* pair.endsWith(suffix)
endsWith(pair, suffix) ==
  /\ Len(pair) >= Len(suffix)
  /\ SubSeq(pair, Len(pair) - Len(suffix) + 1, Len(pair)) = suffix

IsUsdt(pair) == endsWith(pair, Quote)
IsOther(pair) == ~endsWith(pair, Quote)

\* UTF-16 code unit of the characters that occur in symbols
charCode(ch) ==
  CASE ch = "A" -> 65 [] ch = "B" -> 66 [] ch = "C" -> 67 [] ch = "U" -> 85
    [] ch = "X" -> 88 [] OTHER -> 0

\* a < b as Array.prototype.sort compares strings without a comparator
RECURSIVE lexLess(_, _)
lexLess(a, b) ==
  IF b = <<>> THEN FALSE
  ELSE IF a = <<>> THEN TRUE
  ELSE IF charCode(Head(a)) # charCode(Head(b)) THEN charCode(Head(a)) < charCode(Head(b))
  ELSE lexLess(Tail(a), Tail(b))

RECURSIVE insertSorted(_, _)
insertSorted(x, s) ==
  IF s = <<>> THEN <<x>>
  ELSE IF lexLess(Head(s), x) THEN <<Head(s)>> \o insertSorted(x, Tail(s))
  ELSE <<x>> \o s

\* s.sort()
RECURSIVE sort(_)
sort(s) == IF s = <<>> THEN <<>> ELSE insertSorted(Head(s), sort(Tail(s)))

\* s.slice(0, n)
slice(s, n) == SubSeq(s, 1, Min(n, Len(s)))

usdtPairs(pairs) == sort(SelectSeq(pairs, IsUsdt))
otherPairs(pairs) == sort(SelectSeq(pairs, IsOther))

\* the candidate list buildAnalysisPromptWithContext joins into the prompt
buildDisplayPairs(pairs) ==
  slice(usdtPairs(pairs), UsdtCap) \o slice(otherPairs(pairs), OtherCap)

\* symbols the registry may list
RegistrySymbols ==
  { <<"A", "U">>, <<"B", "U">>, <<"C", "U">>, <<"A", "X">>, <<"B", "X">> }

\* registry lists: every order of up to MaxPairs different symbols
RegistryLists ==
  { l \in UNION {[1..n -> RegistrySymbols] : n \in 0..MaxPairs} :
      \A i, j \in 1..Len(l) : i # j => l[i] # l[j] }

InitPrompt ==
  /\ prpc = "idle"
  /\ tradingPairs = <<>>
  /\ displayPairs = <<>>

\* every registry list is about to be written into a prompt
InitPromptLists ==
  /\ prpc = "ready"
  /\ tradingPairs \in RegistryLists
  /\ displayPairs = <<>>

BuildAnalysisPromptWithContext ==
  /\ prpc = "ready"
  /\ prpc' = "built"
  /\ displayPairs' = buildDisplayPairs(tradingPairs)
  /\ UNCHANGED tradingPairs
  /\ UNCHANGED <<gateVars, botVars, apiVars, resolveVars, streamVars, sanitizeVars,
                 parseVars, configVars>>

(* ----------------------- promptManager.getConfig ------------------------ *)

InitConfig ==
  /\ cfpc = [h \in Handlers |-> "idle"]
  /\ cfOutcome = [h \in Handlers |-> "none"]
  /\ initialized = FALSE
  /\ cachedConfig = FALSE
  /\ enabledRows = 0

otherVars == <<gateVars, botVars, apiVars, resolveVars, streamVars, sanitizeVars, parseVars,
               promptVars>>

\* getConfig() up to the first suspension of initialize(): either it returns
\* at once, or databaseManager.initialize() opens the database and creates the
\* tables and indexes, and the call waits on its promise
GetConfig(h) ==
  /\ cfpc[h] \in {"idle", "done"}
  /\ cfOutcome' = [cfOutcome EXCEPT ![h] = "none"]
  /\ cfpc' = [cfpc EXCEPT ![h] = IF initialized THEN "load" ELSE "ensure"]
  /\ UNCHANGED <<initialized, cachedConfig, enabledRows, otherVars>>

\* ensureDefaultConfig up to "await this.loadDefaultConfigFromFile()", or to
\* its early return when an enabled row exists
EnsureDefaultConfig(h) ==
  /\ cfpc[h] = "ensure"
  /\ cfpc' = [cfpc EXCEPT ![h] = IF enabledRows > 0 THEN "ensured" ELSE "readFile"]
  /\ UNCHANGED <<cfOutcome, initialized, cachedConfig, enabledRows, otherVars>>

\* the default configuration is read (from the file or the built-in one) and
\* inserted with enabled = TRUE; idx_enabled_unique rejects a second enabled
\* row and the error leaves initialize() and getConfig()
InsertDefaultConfig(h) ==
  /\ cfpc[h] = "readFile"
  /\ IF enabledRows > 0
       THEN /\ cfpc' = [cfpc EXCEPT ![h] = "done"]
            /\ cfOutcome' = [cfOutcome EXCEPT ![h] = "threw"]
            /\ UNCHANGED enabledRows
       ELSE /\ cfpc' = [cfpc EXCEPT ![h] = "ensured"]
            /\ enabledRows' = enabledRows + 1
            /\ UNCHANGED cfOutcome
  /\ UNCHANGED <<initialized, cachedConfig, otherVars>>

\* "this.initialized = true" behind "await this.ensureDefaultConfig()"
InitializeReturns(h) ==
  /\ cfpc[h] = "ensured"
  /\ initialized' = TRUE
  /\ cfpc' = [cfpc EXCEPT ![h] = "load"]
  /\ UNCHANGED <<cfOutcome, cachedConfig, enabledRows, otherVars>>

\* getConfig behind "await this.initialize()": the cached configuration, or
\* loadEnabledConfig, which reads the enabled row and fills the cache
LoadEnabledConfig(h) ==
  /\ cfpc[h] = "load"
  /\ IF cachedConfig \/ enabledRows > 0
       THEN /\ cachedConfig' = TRUE
            /\ cfpc' = [cfpc EXCEPT ![h] = "done"]
            /\ cfOutcome' = [cfOutcome EXCEPT ![h] = "returned"]
       ELSE /\ cfpc' = [cfpc EXCEPT ![h] = "ensure"]
            /\ UNCHANGED <<cachedConfig, cfOutcome>>
  /\ UNCHANGED <<initialized, enabledRows, otherVars>>

\* five minutes pass since the configuration was cached
CacheExpires ==
  /\ cachedConfig
  /\ cachedConfig' = FALSE
  /\ UNCHANGED <<cfpc, cfOutcome, initialized, enabledRows, otherVars>>

(* ------------------------------ the system ----------------------------- *)

Init ==
  /\ InitGate /\ InitBot /\ InitApi /\ InitResolve /\ probeOk = {}
  /\ InitStream /\ InitSanitize /\ InitParse /\ InitPrompt /\ InitConfig

Next ==
  \/ \E h \in Handlers, c \in Chats, kind \in {"noText", "notForBot", "blank", "text"} :
       HandleTextMessage(h, c, kind)
  \/ \E h \in Handlers, threw \in BOOLEAN : UnadmittedReplySettles(h, threw)
  \/ \E h \in Handlers : AwaitResolves(h)
  \/ \E h \in Handlers, isTrade \in BOOLEAN, hasPair \in BOOLEAN, pairType \in MarketTypes :
       AnalyzeMessageReturns(h, isTrade, hasPair, pairType)
  \/ \E h \in Handlers : ReplySentReturn(h)
  \/ \E h \in Handlers : StreamCompletes(h)
  \/ \E h \in Handlers, err \in ErrorCodes : AwaitRejects(h, err)
  \/ \E h \in Handlers, threw \in BOOLEAN : ErrorHandlerSettles(h, threw)
  \/ \E h \in Handlers, c \in Chats, hasChatId \in BOOLEAN :
       WithConcurrencyControl(h, c, hasChatId)
  \/ \E h \in Handlers, threw \in BOOLEAN : WrappedSettles(h, threw)
  \/ \E m \in ConfigValues : ReloadConfig(m)

Spec == Init /\ [][Next]_vars

\* arbitrary direct calls on the concurrency manager
NextGate ==
  \/ \E c \in Chats : CallStartAnalysis(c)
  \/ \E c \in Chats : CallFinishAnalysis(c)
  \/ CallCleanup

SpecGate == Init /\ [][NextGate]_vars

\* one analyzeMessage call against every environment
InitResolveSpec ==
  InitGate /\ InitBot /\ InitApi /\ InitResolve /\ InitStream /\ InitSanitize /\ InitParse
  /\ InitPrompt /\ InitConfig

NextResolve ==
  \/ \E msg \in Messages : AnalyzeMessage(msg)
  \/ FirstClassifyFails
  \/ \E reply \in Replies : FirstClassifyReplies(reply)
  \/ FirstProbeSettles
  \/ FirstFallbackSettles
  \/ \E u \in Universes : RegistryReturns(u)
  \/ RegistryFails
  \/ SecondClassifyFails
  \/ \E reply \in Replies : SecondClassifyReplies(reply)
  \/ SecondProbeSettles
  \/ SecondFallbackSettles

SpecResolve == InitResolveSpec /\ [][NextResolve]_vars

\* sanitizeMarkdown applied once and then again to every short text
InitSanitizeSpec ==
  InitGate /\ InitBot /\ InitApi /\ InitResolve /\ probeOk = {} /\ InitStream
  /\ InitSanitizeTexts /\ InitParse /\ InitPrompt /\ InitConfig

NextSanitize ==
  \/ Sanitize
  \/ SanitizeAgain

SpecSanitize == InitSanitizeSpec /\ [][NextSanitize]_vars

\* parseAIResponse applied to every reply
InitParseSpec ==
  InitGate /\ InitBot /\ InitApi /\ InitResolve /\ probeOk = {} /\ InitStream
  /\ InitSanitize /\ InitParseReplies /\ InitPrompt /\ InitConfig

NextParse == ParseAIResponse

SpecParse == InitParseSpec /\ [][NextParse]_vars

\* buildAnalysisPromptWithContext applied to every short registry list
InitPromptSpec ==
  InitGate /\ InitBot /\ InitApi /\ InitResolve /\ probeOk = {} /\ InitStream
  /\ InitSanitize /\ InitParse /\ InitPromptLists /\ InitConfig

NextPrompt == BuildAnalysisPromptWithContext

SpecPrompt == InitPromptSpec /\ [][NextPrompt]_vars

\* getConfig() called from several analyses against a fresh database
NextConfig ==
  \/ \E h \in Handlers : GetConfig(h)
  \/ \E h \in Handlers : EnsureDefaultConfig(h)
  \/ \E h \in Handlers : InsertDefaultConfig(h)
  \/ \E h \in Handlers : InitializeReturns(h)
  \/ \E h \in Handlers : LoadEnabledConfig(h)
  \/ CacheExpires

SpecConfig == Init /\ [][NextConfig]_vars

\* one analyzeStreamingTrading call against every short model stream
NextStream ==
  \/ AnalyzeStreamingTrading
  \/ \E content \in ChunkContents : ReadChunk(content)
  \/ \E threw \in BOOLEAN : SendSafeMessageSettles(threw)
  \/ \E threw \in BOOLEAN : DeleteMessageSettles(threw)
  \/ \E threw \in BOOLEAN : SendChatActionSettles(threw)
  \/ StreamEnds
  \/ StreamFails

SpecStream == Init /\ [][NextStream]_vars

(* ------------------------------ properties ----------------------------- *)

InFlightHandlers == {h \in Handlers : InFlight(h)}

\* C1: every invocation admitted by startAnalysis calls finishAnalysis exactly
\* once when its sequence returns or throws (also when the error handler
\* throws), and not before; hence the slots held are exactly those of the
\* invocations still in flight: a settled invocation leaves its conversation
\* inactive and its global slot free.
AdmittedReleasedExactlyOnce ==
  /\ \A h \in Handlers :
       admitted[h] => /\ pc[h] = "done" => finishes[h] = 1
                      /\ pc[h] # "done" => finishes[h] = 0
  /\ globalCount = Cardinality(InFlightHandlers)
  /\ \A c \in Chats :
       groupAnalysis[c] = "true" <=> \E h \in InFlightHandlers : chatOf[h] = c

\* an admitted invocation whose error handler threw has released its slot
ReleasedAfterHandlerThrew ==
  \E h \in Handlers :
    /\ admitted[h] /\ pc[h] = "done" /\ outcome[h] = "threw"
    /\ finishes[h] = 1 /\ groupAnalysis[chatOf[h]] = "false"

\* C2: at most one admitted, unfinished analysis per chatId at every instant.
AtMostOneAnalysisPerChat ==
  \A h1, h2 \in Handlers :
    (h1 # h2 /\ InFlight(h1) /\ InFlight(h2)) => chatOf[h1] # chatOf[h2]

\* a second message of a busy conversation is being refused although the
\* global limit is not reached
SecondRequestOfBusyChatRefused ==
  \E h1, h2 \in Handlers :
    /\ h1 # h2 /\ InFlight(h1) /\ pc[h2] = "deny"
    /\ chatOf[h1] = chatOf[h2]
    /\ globalCount < maxConcurrentAnalysis

\* C3 (as claimed): globalCount never exceeds config.maxConcurrentAnalysis.
GlobalCountWithinConfiguredMax == globalCount <= maxConcurrentAnalysis

\* C4: after any sequence of startAnalysis / finishAnalysis / cleanup calls
\* globalCount equals the number of chatIds whose flag in groupAnalysis is true.
GlobalCountEqualsActiveFlags ==
  globalCount = Cardinality(activeGroups(groupAnalysis))

\* all three operations were used: one conversation is active, another was
\* finished and swept by cleanup
GateAfterStartFinishCleanup ==
  /\ lastCall.op = "cleanup"
  /\ calls = MaxCalls
  /\ globalCount = 1
  /\ \E c \in Chats : groupAnalysis[c] = "unset"

FirstCallFailed == classifyCalls = 1 /\ result = NoVerdict

\* C5: for every non-null message analyzeMessage settles by returning a
\* verdict, whatever fails after the first classification call; only a
\* transport failure of that first call could be allowed to throw.
ResolveReturnsVerdict ==
  rpc = "done" =>
    \/ routcome = "returned" /\ returned # NoVerdict
    \/ routcome = "threw" /\ FirstCallFailed

\* the registry fetch of the second pass failed and a verdict was returned
VerdictAfterRegistryFailure ==
  /\ rpc = "done" /\ routcome = "returned"
  /\ registryFetches = 1 /\ ~grounding.given
  /\ returned = result /\ returned.isTradeAnalysis

LastValidation == validations[Len(validations)]
SecondPassValidated == rpc = "done" /\ Truthy(secondResult.tradingPair)

\* C6 (as claimed): when the second classification returns a symbol for which
\* both probes fail, the verdict is an analysis request without a symbol.
UnresolvableSecondPassHasNoSymbol ==
  (SecondPassValidated /\ ~LastValidation.isValid) =>
    returned.isTradeAnalysis /\ returned.tradingPair = JNull

ValidationsDone == {validations[i] : i \in 1..Len(validations)}

\* C7 (as claimed): if the spot probe for S succeeds, validation of S returns
\* spot whatever the guessed market type.
SpotProbeAlwaysWins ==
  \A v \in ValidationsDone :
    ProbeAnswer(v.pair, "spot") => v.isValid /\ v.finalTradingPairType = "spot"

\* C7 (amended): if the spot probe for S succeeds, validation of S is valid and
\* returns spot, except that a futures guess whose futures probe succeeds is
\* kept as futures.
SpotWinsUnlessFuturesGuessConfirmed ==
  \A v \in ValidationsDone :
    ProbeAnswer(v.pair, "spot") =>
      /\ v.isValid
      /\ v.finalTradingPairType =
           IF v.guess = "futures" /\ ProbeAnswer(v.pair, "futures")
             THEN "futures" ELSE "spot"

\* a futures guess was corrected to spot by the fallback probe
FuturesGuessCorrectedToSpot ==
  \E v \in ValidationsDone :
    /\ v.guess = "futures" /\ ProbeAnswer(v.pair, "spot")
    /\ ~ProbeAnswer(v.pair, "futures")
    /\ v.isValid /\ v.finalTradingPairType = "spot"

GuessFailedOtherSucceeded(v) ==
  ~ProbeAnswer(v.pair, v.guess) /\ ProbeAnswer(v.pair, fallbackType(v.guess))

\* C8: if the probe on the guessed market type fails and the probe on the other
\* type succeeds, validation is valid with the other type, and the verdict
\* returned carries the validated symbol (the classifier's symbol, trimmed and
\* upper-cased) with its market type replaced by the confirmed type.
WrongGuessCorrected ==
  /\ \A v \in ValidationsDone :
       GuessFailedOtherSucceeded(v) =>
         /\ v.isValid
         /\ v.finalTradingPairType = fallbackType(v.guess)
         /\ v.validatedPair = JStr(cleanPair(v.arg))
  /\ (rpc = "done" /\ validations # <<>> /\ GuessFailedOtherSucceeded(LastValidation)) =>
       /\ routcome = "returned"
       /\ returned.tradingPair = JStr(cleanPair(LastValidation.arg))
       /\ returned.tradingPairType = fallbackType(LastValidation.guess)
       /\ returned.tradingPairType # LastValidation.guess

\* the first-pass guess "spot" of a lower-case symbol was corrected to futures
FirstPassGuessCorrected ==
  /\ rpc = "done" /\ Len(validations) = 1
  /\ LastValidation.pass = 1 /\ LastValidation.guess = "spot"
  /\ LastValidation.arg = RawBTC
  /\ GuessFailedOtherSucceeded(LastValidation)
  /\ returned.tradingPair = JStr(SymBTC) /\ returned.tradingPairType = "futures"

FirstPassGuessConfirmed ==
  /\ validations # <<>>
  /\ validations[1].pass = 1
  /\ ProbeAnswer(validations[1].pair, validations[1].guess)

\* C9: if the first pass returns an analysis request with a symbol and the
\* probe on the guessed market type succeeds, the verdict returned keeps that
\* symbol (trimmed and upper-cased) and market type, exactly one probe is
\* issued, and there is no registry fetch and no second classification call.
ConfirmedGuessReturnsUnchanged ==
  FirstPassGuessConfirmed =>
    /\ rpc = "done" /\ routcome = "returned"
    /\ returned.isTradeAnalysis
    /\ returned.tradingPair = JStr(cleanPair(validations[1].arg))
    /\ returned.tradingPairType = validations[1].guess
    /\ Len(probes) = 1
    /\ registryFetches = 0
    /\ classifyCalls = 1
    /\ ~grounding.given

\* a futures guess confirmed by the futures probe although spot exists too
FuturesGuessConfirmedDirectly ==
  /\ FirstPassGuessConfirmed /\ rpc = "done"
  /\ validations[1].guess = "futures"
  /\ ProbeAnswer(validations[1].pair, "spot")
  /\ returned.tradingPairType = "futures"

FirstPassNoSymbol == result.isTradeAnalysis /\ result.tradingPair = JNull

\* C10: if the first pass returns an analysis request with no symbol, no
\* probe is issued before the second pass; the second pass is started, the
\* second classification is invoked with the pair lists the registry returned,
\* and if it returns a symbol whose probe succeeds the verdict returned carries
\* that symbol with the confirmed market type.
NoSymbolGoesToSecondPass ==
  FirstPassNoSymbol =>
    /\ registryFetches = 1
    /\ rpc \in {"registry", "second"} => probes = <<>>
    /\ \A v \in ValidationsDone : v.pass = 2
    /\ grounding.given <=> classifyCalls = 2
    /\ rpc = "second" => grounding.given
    /\ (rpc = "done" /\ validations # <<>> /\ LastValidation.isValid) =>
         /\ routcome = "returned"
         /\ returned.tradingPair = JStr(cleanPair(LastValidation.arg))
         /\ returned.tradingPairType = LastValidation.finalTradingPairType
         /\ ProbeAnswer(returned.tradingPair.v, returned.tradingPairType)

\* the second pass, grounded on a non-empty list, resolved NEAR on futures
\* after the first pass found no symbol
SecondPassResolvedSymbol ==
  /\ FirstPassNoSymbol /\ rpc = "done"
  /\ grounding.given /\ grounding.futures # <<>>
  /\ returned.tradingPair = JStr(SymNEAR)
  /\ returned.tradingPairType = "futures"
  /\ LastValidation.guess = "spot"

WhitespaceOnly(msg) == \A i \in 1..Len(msg) : msg[i] = " "

\* C11: for empty or whitespace-only input analyzeMessage returns
\* isTradeAnalysis = false, no symbol and confidence 1.0, and issues no
\* classification call, no registry fetch and no existence probe.
BlankInputShortCircuits ==
  (rpc = "done" /\ WhitespaceOnly(message)) =>
    /\ routcome = "returned"
    /\ ~returned.isTradeAnalysis
    /\ returned.tradingPair = JNull
    /\ returned.confidence = 10
    /\ classifyCalls = 0
    /\ registryFetches = 0
    /\ probes = <<>>
    /\ validations = <<>>

\* a message of one space has been answered
WhitespaceMessageAnswered ==
  /\ rpc = "done"
  /\ message = <<" ">>
  /\ returned = EmptyMessageVerdict

\* C19: every verdict returned by analyzeMessage with isTradeAnalysis = false
\* carries no symbol.
NonAnalysisVerdictHasNoSymbol ==
  (rpc = "done" /\ routcome = "returned" /\ ~returned.isTradeAnalysis) =>
    returned.tradingPair = JNull

\* msg.chat.type of a conversation: chat 1 is a private chat, the others are groups
chatType(c) == IF c = 1 THEN "private" ELSE "group"

\* the gate as it would stand with only the analyses of chats of c's type in flight
OtherTypeActive(c) == {d \in Chats : chatType(d) # chatType(c) /\ groupAnalysis[d] = "true"}
SameTypeFlags(c) ==
  [d \in Chats |-> IF chatType(d) = chatType(c) THEN groupAnalysis[d] ELSE "unset"]

\* C18: private-chat and group-chat analyses do not affect each other: whether
\* a request of chat c is admitted is the same with and without the analyses
\* of the chats of the other type that are in flight.
AdmissionIndependentOfOtherChatType ==
  \A c \in Chats :
    canStartAnalysis(globalCount, groupAnalysis, maxConcurrentAnalysis, c)
      <=> canStartAnalysis(MathMax0(globalCount - Cardinality(OtherTypeActive(c))),
                           SameTypeFlags(c), maxConcurrentAnalysis, c)

FourOutcomes ==
  {"nonAnalysisAck", "analysisSegments", "pairNotFoundNotice", "concurrencyNotice"}

\* C16: every handled request ends with the user receiving one of four
\* outcomes (non-analysis acknowledgment, resolved instrument with segmented
\* analysis, instrument-not-found notice, admission-denied notice); failures
\* of the market-data fetch or of the model stream degrade to one of these and
\* never to a message carrying the text of the error.  (The reply to a message
\* without usable text is left aside.)
RequestEndsInOneOfFourOutcomes ==
  \A h \in Handlers :
    (pc[h] = "done" /\ notice[h] \notin {"none", "invalidTextNotice"}) =>
      notice[h] \in FourOutcomes

\* C17: a request is refused exactly when canStartAnalysis is false; the
\* refused request hands a CONCURRENCY_LIMIT error to handleAnalysisError,
\* goes nowhere but to its end (no classification, fetch or stream), sends the
\* concurrency notice, never calls finishAnalysis, and leaves globalCount and
\* every conversation's flag as they were.
DeniedRequestStep(h) ==
  /\ (pc[h] # "deny" /\ pc'[h] = "deny") =>
       /\ ~canStartAnalysis(globalCount, groupAnalysis, maxConcurrentAnalysis, chatOf'[h])
       /\ error'[h] = "CONCURRENCY_LIMIT"
       /\ ~admitted'[h]
       /\ UNCHANGED <<globalCount, groupAnalysis>>
  /\ (pc[h] \in {"idle", "done"} /\ pc'[h] = "typing1") =>
       canStartAnalysis(globalCount, groupAnalysis, maxConcurrentAnalysis, chatOf'[h])
  /\ (pc[h] = "deny" /\ pc'[h] # "deny") =>
       /\ pc'[h] = "done"
       /\ finishes'[h] = 0
       /\ outcome'[h] = "returned" => notice'[h] = "concurrencyNotice"
       /\ notice'[h] \in {"concurrencyNotice", "none"}
       /\ UNCHANGED <<globalCount, groupAnalysis>>

DeniedRequestLeavesGateUntouched == [][\A h \in Handlers : DeniedRequestStep(h)]_vars

\* a request of a conversation whose analysis is still in flight was refused
\* with the concurrency notice, and that analysis still holds its slot
DeniedWhileOtherInFlight ==
  \E h, g \in Handlers :
    /\ h # g
    /\ pc[h] = "done" /\ notice[h] = "concurrencyNotice" /\ finishes[h] = 0
    /\ InFlight(g) /\ chatOf[g] = chatOf[h]
    /\ groupAnalysis[chatOf[h]] = "true"
    /\ globalCount = 1


\* C20: sanitizeMarkdown is idempotent: sanitizing the sanitized text gives
\* the sanitized text.
SanitizeMarkdownIdempotent == spc = "twice" => twice = once

\* a text with an unpaired mark was changed by the first pass and left alone
\* by the second
UnpairedMarkRemovedOnce ==
  /\ spc = "twice"
  /\ text = <<"*", "a", Backtick>>
  /\ once = <<"a">>
  /\ twice = once

\* C12: a segment is emitted as final iff the sentinel that terminated it,
\* the earliest one in the buffer, is the hard marker [ANALYSIS_COMPLETE]
\* (so "a[SEGMENT_COMPLETE]b [ANALYSIS_COMPLETE]" gives "a" not final, then
\* "b" final).
FinalIffTerminatedByHardMarker ==
  \A i \in 1..Len(emitted) : emitted[i].isComplete <=> emitted[i].hardFirst

RECURSIVE Stretches(_)
Stretches(t) ==
  IF ~hasMarker(t) THEN <<>>
  ELSE LET i == markerIndex(t)
           hard == i = indexOf(t, AnalysisComplete)
           stretch == trim(SubSeq(t, 1, i - 1))
           rest == SubSeq(t, i + Len(AnalysisComplete), Len(t))
       IN (IF stretch # <<>> THEN <<stretch>> ELSE <<>>)
          \o (IF hard THEN <<>> ELSE Stretches(rest))

\* C14: when the call has returned, the segments delivered are exactly the
\* non-blank stretches of the streamed text that lie between consecutive
\* sentinels up to the first hard marker, each once and in order.
EveryStretchDeliveredOnce ==
  stpc = "done" =>
    [i \in 1..Len(emitted) |-> emitted[i].segment] = Stretches(fullContent)

\* C15: when the streamed text contains the hard marker, exactly one emitted
\* segment is final and it is the last one emitted.
HardMarkerGivesOneFinalSegment ==
  (stpc = "done" /\ includes(fullContent, AnalysisComplete)) =>
    /\ emitted # <<>>
    /\ \A i \in 1..Len(emitted) : emitted[i].isComplete <=> i = Len(emitted)

\* C21: the text sanitizeMarkdown returns holds an even number of each of the
\* marks it tracks: the asterisk, the code mark and the underscore.
SanitizedMarksAreEven ==
  spc \in {"once", "twice"} =>
    \A c \in {"*", Backtick, "_"} : count(once, c) % 2 = 0

\* a text with one code mark and one underscore lost both
TwoUnpairedMarksRemoved ==
  /\ spc = "once"
  /\ text = <<Backtick, "a", "_">>
  /\ once = <<"a">>

\* C22: a finishAnalysis call for a conversation that is not active changes
\* neither globalCount nor the flag of any conversation, at its first call and
\* at every later one.
FinishOfInactiveChangesNothing ==
  [][(calls' # calls /\ lastCall'.op = "finishAnalysis"
        /\ groupAnalysis[lastCall'.chatId] # "true")
       => (UNCHANGED <<globalCount, groupAnalysis>> /\ ~lastCall'.threw)]_vars

\* the third call was a finishAnalysis for a conversation that never
\* started, while another conversation holds a slot
FinishedTwiceWhileInactive ==
  /\ calls = 3
  /\ lastCall.op = "finishAnalysis"
  /\ groupAnalysis[lastCall.chatId] = "unset"
  /\ globalCount = 1
  /\ \E c \in Chats : groupAnalysis[c] = "true"

\* C23: whenever analyzeMessage returns a verdict that carries a symbol, a
\* probe of that symbol on the verdict's market type was issued during the
\* call and succeeded.
ReturnedSymbolWasProbed ==
  (rpc = "done" /\ routcome = "returned" /\ Truthy(returned.tradingPair)) =>
    \E i \in 1..Len(probes) :
      /\ probes[i] = <<cleanPair(returned.tradingPair.v), returned.tradingPairType>>
      /\ ProbeAnswer(probes[i][1], probes[i][2])

\* C24: if the registry fetch of the second pass fails, resolution is not
\* abandoned: the second classification call is still issued.
SecondClassificationIssuedAfterFailedFetch ==
  (rpc = "done" /\ registryFetches = 1 /\ ~grounding.given) => classifyCalls = 2

\* C25: if the second classification call fails or returns undecodable output,
\* the verdict returned is the first-pass verdict annotated with
\* hasAIError = true.
FailedSecondPassAnnotatesVerdict ==
  (rpc = "done" /\ classifyCalls = 2 /\ secondResult.hasAIError = "true") =>
    /\ routcome = "returned"
    /\ returned = [result EXCEPT !.hasAIError = "true"]

\* the branch taken after the first classification has been decided
FirstPassDecided == classifyCalls >= 1 /\ rpc \notin {"idle", "first", "probe1", "fallback1"}

\* the first-pass symbol was probed on both market types and both probes failed
FirstSymbolFailedBothProbes ==
  /\ validations # <<>>
  /\ validations[1].pass = 1 /\ ~validations[1].isValid
  /\ Len(probes) >= 2
  /\ ~ProbeAnswer(probes[1][1], probes[1][2])
  /\ ~ProbeAnswer(probes[2][1], probes[2][2])

\* a first-pass verdict that is no analysis request is returned as it is,
\* with no probe and no second pass
NonRequestReturnedAsIs ==
  (FirstPassDecided /\ ~result.isTradeAnalysis) =>
    /\ rpc = "done"
    /\ probes = <<>>
    /\ registryFetches = 0
    /\ classifyCalls = 1
    /\ returned = IF FirstCallFailed THEN OuterCatch.verdict ELSE result

\* C26: a second pass is started iff the first pass flagged an
\* analysis request and returned no symbol (none at all, or an empty one) or a
\* symbol for which both probes failed; a verdict that is no analysis request
\* is returned as it is with no probe and no second pass.
SecondPassIffNoUsableSymbol ==
  /\ NonRequestReturnedAsIs
  /\ FirstPassDecided =>
       (registryFetches = 1 <=>
          /\ result.isTradeAnalysis
          /\ ~Truthy(result.tradingPair) \/ FirstSymbolFailedBothProbes)

ProbeIssued(symbol, market) == \E i \in 1..Len(probes) : probes[i] = <<symbol, market>>

\* C27: validateTradingPairByAPI never throws, and it returns isValid = false
\* exactly when the probe on the guessed market type and the probe on the
\* other type both fail; a probe that errors or times out only makes the next
\* probe be issued.
InvalidIffBothProbesFail ==
  /\ routcome # "threw"
  /\ rpc \in {"fallback1", "fallback2"} =>
       /\ ~ProbeAnswer(vPair, vType)
       /\ probes[Len(probes)] = <<vPair, fallbackType(vType)>>
  /\ \A i \in 1..Len(validations) :
       LET v == validations[i] IN
       /\ ~v.isValid <=>
            (~ProbeAnswer(v.pair, v.guess) /\ ~ProbeAnswer(v.pair, fallbackType(v.guess)))
       /\ ~v.isValid =>
            (ProbeIssued(v.pair, v.guess) /\ ProbeIssued(v.pair, fallbackType(v.guess)))
       /\ ProbeIssued(v.pair, v.guess)

\* both validations of a call ended invalid after four failed probes, and the
\* call returned
BothValidationsInvalid ==
  /\ rpc = "done" /\ routcome = "returned"
  /\ Len(validations) = 2
  /\ ~validations[1].isValid /\ ~validations[2].isValid
  /\ Len(probes) = 4

\* the fallback verdict of a reply that could not be used
IsFallbackVerdict(v) == ~v.isTradeAnalysis /\ v.confidence = 0 /\ v.hasAIError = "true"

\* a field of a decoded reply has a type its schema does not allow
WrongTypedField(r) ==
  \/ r.isTradeAnalysis.t # "boolean"
  \/ r.tradingPair.t \notin {"string", "null"}
  \/ r.tradingPairType.t \notin {"string", "null"}

KlineFetchTargetsConfirmedMarket ==
  \A h \in Handlers :
    pc[h] = "kline" => getKlineDataMarket(pairTypeOf[h]) = pairTypeOf[h]

\* C30: canStartAnalysis(chatId) is true exactly when fewer analyses are in
\* flight than config.maxConcurrentAnalysis allows and none of them belongs to
\* chatId; so a conversation whose analysis has finished is admissible again,
\* and conversations other than the busy ones are admitted until the maximum
\* is reached.
CanStartIffRoomAndChatIdle ==
  \A c \in Chats :
    canStartAnalysis(globalCount, groupAnalysis, maxConcurrentAnalysis, c)
      <=> /\ Cardinality(InFlightHandlers) < maxConcurrentAnalysis
          /\ \A h \in InFlightHandlers : chatOf[h] # c

\* one conversation has finished its analysis and can start again while the
\* analysis of another conversation is still in flight
FinishedChatAdmissibleBesideBusyChat ==
  \E h, g \in Handlers :
    /\ admitted[h] /\ pc[h] = "done" /\ finishes[h] = 1
    /\ InFlight(g) /\ chatOf[g] # chatOf[h]
    /\ canStartAnalysis(globalCount, groupAnalysis, maxConcurrentAnalysis, chatOf[h])
    /\ ~canStartAnalysis(globalCount, groupAnalysis, maxConcurrentAnalysis, chatOf[g])

\* C31: no segment content handed to onUpdate contains the text of a sentinel,
\* [SEGMENT_COMPLETE] or [ANALYSIS_COMPLETE], however the sentinels are spread
\* over the chunks.
NoSentinelInDeliveredContent ==
  \A i \in 1..Len(emitted) :
    /\ ~includes(emitted[i].content, SegmentComplete)
    /\ ~includes(emitted[i].content, AnalysisComplete)

\* the text cut out of the buffer as a segment never contains a sentinel
NoSentinelInCutSegment ==
  \A i \in 1..Len(emitted) :
    /\ ~includes(emitted[i].segment, SegmentComplete)
    /\ ~includes(emitted[i].segment, AnalysisComplete)

\* C32: when the stream ends, or reading it fails, and the streamed text holds
\* no [ANALYSIS_COMPLETE], that step delivers nothing: the text buffered after
\* the last sentinel handled is not sent, and no delivered segment is final.
EndWithoutHardMarkerDeliversNothing ==
  [][(stpc = "reading" /\ stpc' \in {"done", "failed"}
        /\ ~includes(fullContent', AnalysisComplete))
       => /\ emitted' = emitted
          /\ \A i \in 1..Len(emitted') : ~emitted'[i].isComplete]_vars

\* the stream ended after one segment, with text still buffered behind the
\* soft marker and no hard marker anywhere
EndedWithBufferedText ==
  /\ stpc = "done"
  /\ ~includes(fullContent, AnalysisComplete)
  /\ trim(currentSegment) # <<>>
  /\ Len(emitted) = 1
  /\ ~emitted[1].isComplete

\* C33: the segments of one analysis reach the chat in emission order and one
\* at a time: while a call of onUpdate is in progress no chunk is read and no
\* further segment is emitted, and the segment a send delivers is the one
\* emitted last, so the delivered counts are strictly increasing.
SegmentsDeliveredOneAtATime ==
  [][/\ chunksRead' # chunksRead => (upc = "none" /\ stpc = "reading")
     /\ emitted' # emitted => (upc = "none" /\ upc' = "send")
     /\ delivered' # delivered =>
          /\ upc = "send"
          /\ delivered' = Append(delivered, Len(emitted))
          /\ \A i \in 1..Len(delivered) : delivered[i] < Len(emitted)]_vars

\* the second segment has been sent after the first and its chat action is
\* still pending
SecondDeliveryInProgress ==
  /\ delivered = <<1, 2>>
  /\ stpc = "onUpdate"
  /\ upc = "action"
  /\ chunksRead < MaxChunks

\* a call made by onUpdate throws in this step
DeliveryFails == failures' # failures

\* what holds of every failed delivery call whether it is logged or not: the
\* error stays inside the callback, the segmenter loses nothing and goes on
\* with its turn, and it keeps reading unless the segment was the final one
FailureStaysInCallback ==
  /\ stpc' # "failed"
  /\ UNCHANGED <<chunksRead, fullContent, segmentCount, emitted, delivered>>
  /\ ~currentUpdate.isComplete => (stpc' = "reading" \/ upc' = "action")
  /\ currentUpdate.isComplete => stpc' = "done"

\* C34 as stated: every failure of a delivery call, the send, the delete of
\* the status message or the chat action, is logged and not propagated.
EveryDeliveryFailureLogged ==
  [][DeliveryFails => (logged' = logged + 1 /\ FailureStaysInCallback)]_vars

\* C34 amended: no failure of a delivery call is propagated, the stream keeps
\* being consumed and the call is not reported as failed; a failed send or
\* chat action is logged, a failed delete of the status message is dropped
\* without a log entry.
DeliveryFailureNotPropagated ==
  [][DeliveryFails =>
       /\ FailureStaysInCallback
       /\ upc \in {"send", "action"} => logged' = logged + 1
       /\ upc = "delete" => logged' = logged]_vars

\* the send of the first segment failed and was logged, the second segment
\* was delivered all the same and the call returned normally
LaterSegmentDeliveredAfterFailedSend ==
  /\ delivered = <<2>>
  /\ Len(emitted) = 2
  /\ failures = 1 /\ logged = 1
  /\ stpc = "done"

\* the place of each await of an admitted invocation in the order of the code
StageRank(p) ==
  CASE p = "typing1" -> 1
    [] p = "analyze" -> 2
    [] p \in {"typing2", "ack", "noPair"} -> 3
    [] p = "status" -> 4
    [] p = "kline" -> 5
    [] p = "edit" -> 6
    [] p = "stream" -> 7
    [] p = "catch" -> 8
    [] p = "done" -> 9
    [] OTHER -> 0

\* one step of invocation h in the pipeline resolve, fetch, stream
PipelineStep(h) ==
  pc'[h] # pc[h] =>
    /\ pc'[h] = "analyze" => pc[h] = "typing1"
    /\ pc'[h] = "typing2" => pc[h] = "analyze"
    /\ pc'[h] = "status" => pc[h] = "typing2"
    /\ pc'[h] = "kline" => pc[h] = "status"
    /\ pc'[h] = "edit" => pc[h] = "kline"
    /\ pc'[h] = "stream" => pc[h] = "edit"
    /\ pc[h] \in {"ack", "noPair"} => pc'[h] \in {"catch", "done"}
    /\ pc[h] = "stream" => pc'[h] \in {"catch", "done"}
    /\ pc[h] = "catch" => pc'[h] = "done"
    /\ StageRank(pc[h]) > 0 /\ pc[h] # "done" => StageRank(pc'[h]) > StageRank(pc[h])

CandidatesKeepDominantGroup ==
  prpc = "built" =>
    /\ \A i, j \in 1..Len(displayPairs) :
         i < j => /\ ~(IsOther(displayPairs[i]) /\ IsUsdt(displayPairs[j]))
                  /\ IsUsdt(displayPairs[i]) = IsUsdt(displayPairs[j])
                       => lexLess(displayPairs[i], displayPairs[j])
    /\ Len(displayPairs) <= UsdtCap + OtherCap
    /\ (\E i \in 1..Len(displayPairs) : IsOther(displayPairs[i])) =>
         \A k \in 1..Len(tradingPairs) :
           IsUsdt(tradingPairs[k]) =>
             \E i \in 1..Len(displayPairs) : displayPairs[i] = tradingPairs[k]

\* the positions of x that hold the last occurrence of a mark occurring an odd
\* number of times in x
UnpairedLast(x) ==
  {i \in 1..Len(x) :
     /\ x[i] \in {"*", Backtick, "_"}
     /\ count(x, x[i]) % 2 = 1
     /\ \A j \in (i + 1)..Len(x) : x[j] # x[i]}

\* x without the characters at the positions in drop, the order kept
RECURSIVE Without(_, _)
Without(x, drop) ==
  IF x = <<>> THEN <<>>
  ELSE Without(SubSeq(x, 1, Len(x) - 1), drop)
         \o (IF Len(x) \in drop THEN <<>> ELSE <<x[Len(x)]>>)

\* C37: sanitizeMarkdown(x) is x without the last occurrence of each of the
\* three marks that occurs an odd number of times in x; every other character
\* stays, in the same order.
SanitizeRemovesLastUnpairedOnly ==
  spc \in {"once", "twice"} => once = Without(text, UnpairedLast(text))

\* a text with three asterisks lost the last of them and kept the first two
\* around the letter
LastOfThreeMarksRemoved ==
  /\ spc = "once"
  /\ text = <<"*", "a", "*", "*">>
  /\ once = <<"*", "a", "*">>

\* one turn of the segmenter's loop as a function: st holds the buffer, the
\* segments handed to onUpdate so far and whether the loop was left
feedChunk(st, content) ==
  LET buf == st.currentSegment \o content IN
  IF st.left THEN st
  ELSE IF ~hasMarker(buf) THEN [st EXCEPT !.currentSegment = buf]
  ELSE [currentSegment |-> remainingSegment(buf),
        left |-> isAnalysisComplete(buf),
        segments |->
          IF currentSegmentContent(buf) # <<>>
            THEN Append(st.segments,
                   [content |-> formatSegmentContent(currentSegmentContent(buf),
                                                     isAnalysisComplete(buf)),
                    isComplete |-> isAnalysisComplete(buf)])
            ELSE st.segments]

\* the same text streamed one character per chunk
RECURSIVE feedCharacters(_, _)
feedCharacters(st, t) ==
  IF t = <<>> THEN st
  ELSE feedCharacters(feedChunk(st, <<Head(t)>>), Tail(t))

segmentsOfCharacterStream(t) ==
  feedCharacters([currentSegment |-> <<>>, left |-> FALSE, segments |-> <<>>], t).segments

\* C38: the segments emitted depend on the streamed text only, not on the way
\* it is cut into chunks: when the call has returned, they are the segments
\* the same text gives when it arrives one character per chunk, with the same
\* contents and the same final flags in the same order.
SegmentsIndependentOfChunking ==
  stpc = "done" =>
    [i \in 1..Len(emitted) |->
       [content |-> emitted[i].content, isComplete |-> emitted[i].isComplete]]
      = segmentsOfCharacterStream(fullContent)

\* C39: getConfig() calls that overlap on a fresh database all resolve, and
\* exactly one row of prompt_configs is enabled once a call has resolved.
ConcurrentFirstCallsAllSucceed ==
  /\ \A h \in Handlers : cfOutcome[h] # "threw"
  /\ (\E h \in Handlers : cfOutcome[h] = "returned") => enabledRows = 1

====
